---------------------------- MODULE Spec2Model ----------------------------
(*
  Announcements router of the High School Management System API
  (src/backend/routers/announcements.py).

  The state is the "announcements" collection, the ObjectId generator of the
  database driver, the wall clock read by datetime.utcnow(), the position of
  every request worker inside update_announcement (the only handler that makes
  more than one round trip to the announcements collection), and the HTTP
  response produced by the last step.

  Strings that the code only stores and returns (title, message, username)
  are TLA+ strings.  Strings that the code takes apart, rewrites or compares
  (timestamps, announcement ids) are sequences of one-character strings, so
  that str.replace, datetime.fromisoformat, datetime.isoformat, ObjectId() and
  the database's string comparison are computed character by character.
*)
EXTENDS Integers, Sequences, FiniteSets, TLC

(***************************************************************************)
(* Bounds of the model.                                                    *)
(***************************************************************************)
\* the clock is advanced at most this many half hours past midnight
MaxClock == 1
\* at most this many announcements are ever inserted
MaxInserts == 2

(***************************************************************************)
(* Characters and strings.                                                 *)
(***************************************************************************)
Digits == <<"0", "1", "2", "3", "4", "5", "6", "7", "8", "9">>

DecimalDigits == {"0", "1", "2", "3", "4", "5", "6", "7", "8", "9"}

IsDigit(c) == c \in DecimalDigits

DigitVal(c) ==
    CASE c = "0" -> 0 [] c = "1" -> 1 [] c = "2" -> 2 [] c = "3" -> 3 [] c = "4" -> 4
      [] c = "5" -> 5 [] c = "6" -> 6 [] c = "7" -> 7 [] c = "8" -> 8 [] c = "9" -> 9

HexLetters == <<"a", "b", "c", "d", "e", "f">>

\* the hexadecimal digits, in either case
HexDigits ==
    DecimalDigits \cup {"a", "b", "c", "d", "e", "f", "A", "B", "C", "D", "E", "F"}

IsHex(c) == c \in HexDigits

HexVal(c) ==
    CASE IsDigit(c) -> DigitVal(c)
      [] c = "a" \/ c = "A" -> 10 [] c = "b" \/ c = "B" -> 11
      [] c = "c" \/ c = "C" -> 12 [] c = "d" \/ c = "D" -> 13
      [] c = "e" \/ c = "E" -> 14 [] c = "f" \/ c = "F" -> 15

HexDigit(n) == IF n < 10 THEN Digits[n + 1] ELSE HexLetters[n - 9]

\* code point of a character of a timestamp; the database orders strings by
\* code point
Ord(c) ==
    CASE c = "+" -> 43
      [] c = "-" -> 45
      [] c = "." -> 46
      [] c = ":" -> 58
      [] c = "T" -> 84
      [] c = "Z" -> 90
      [] OTHER -> 48 + DigitVal(c)

\* Python None / BSON null: a value that is no string
Null == <<"null">>

IsStr(v) == v # Null

\* s[i..] with every "Z" replaced by "+00:00"
RECURSIVE ReplaceZFrom(_, _)
ReplaceZFrom(s, i) ==
    IF i > Len(s) THEN <<>>
    ELSE (IF s[i] = "Z" THEN <<"+", "0", "0", ":", "0", "0">> ELSE <<s[i]>>)
         \o ReplaceZFrom(s, i + 1)

\* str.replace('Z', '+00:00')
ReplaceZ(s) == ReplaceZFrom(s, 1)

\* a[i..] <= b[i..] in the lexicographic order by code point (a proper prefix
\* is smaller), given that a and b agree before i
RECURSIVE StrLeqFrom(_, _, _)
StrLeqFrom(a, b, i) ==
    IF i > Len(a) THEN TRUE
    ELSE IF i > Len(b) THEN FALSE
    ELSE IF a[i] = b[i] THEN StrLeqFrom(a, b, i + 1)
    ELSE Ord(a[i]) < Ord(b[i])

\* a <= b as the database compares strings
StrLeq(a, b) == StrLeqFrom(a, b, 1)

(***************************************************************************)
(* datetime.fromisoformat and datetime.isoformat.                          *)
(***************************************************************************)
\* value of the two decimal digits s[i], s[i+1]
Num2(s, i) == 10 * DigitVal(s[i]) + DigitVal(s[i + 1])

Num4(s, i) == 100 * Num2(s, i) + Num2(s, i + 2)

AllDigits(s, idx) == \A i \in idx : IsDigit(s[i])

IsLeap(y) == (y % 4 = 0 /\ y % 100 # 0) \/ y % 400 = 0

DaysInMonth(y, m) ==
    IF m = 2 THEN (IF IsLeap(y) THEN 29 ELSE 28)
    ELSE IF m \in {4, 6, 9, 11} THEN 30 ELSE 31

\* s[1..10] is YYYY-MM-DD naming a day of the calendar
IsIsoDate(s) ==
    /\ AllDigits(s, {1, 2, 3, 4, 6, 7, 9, 10})
    /\ s[5] = "-" /\ s[8] = "-"
    /\ Num4(s, 1) >= 1
    /\ Num2(s, 6) \in 1..12
    /\ Num2(s, 9) \in 1..DaysInMonth(Num4(s, 1), Num2(s, 6))

\* s[i..i+7] is HH:MM:SS
IsIsoTime(s, i) ==
    /\ AllDigits(s, {i, i + 1, i + 3, i + 4, i + 6, i + 7})
    /\ s[i + 2] = ":" /\ s[i + 5] = ":"
    /\ Num2(s, i) < 24 /\ Num2(s, i + 3) < 60 /\ Num2(s, i + 6) < 60

\* s[i..i+5] is +HH:MM or -HH:MM
IsIsoOffset(s, i) ==
    /\ s[i] \in {"+", "-"}
    /\ AllDigits(s, {i + 1, i + 2, i + 4, i + 5})
    /\ s[i + 3] = ":"
    /\ Num2(s, i + 1) < 24 /\ Num2(s, i + 4) < 60

\* datetime.fromisoformat(s) returns (TRUE) or raises ValueError (FALSE), for
\* the forms YYYY-MM-DD, YYYY-MM-DD?HH:MM:SS and YYYY-MM-DD?HH:MM:SS+HH:MM,
\* where ? is any one character
fromisoformat(s) ==
    \/ Len(s) = 10 /\ IsIsoDate(s)
    \/ Len(s) = 19 /\ IsIsoDate(s) /\ IsIsoTime(s, 12)
    \/ Len(s) = 25 /\ IsIsoDate(s) /\ IsIsoTime(s, 12) /\ IsIsoOffset(s, 20)

\* the try block around datetime.fromisoformat(x.replace('Z', '+00:00'))
ValidDate(s) == fromisoformat(ReplaceZ(s))

TwoDigits(n) == <<Digits[(n \div 10) + 1], Digits[(n % 10) + 1]>>

\* the day on which the server runs
Today == <<"2", "0", "2", "6", "-", "1", "1", "-", "0", "4">>

\* datetime.utcnow().isoformat() when the clock shows t half hours past
\* midnight of Today (microsecond 0, so no fraction is printed)
isoformat(t) ==
    Today \o <<"T">> \o TwoDigits((t * 30) \div 60) \o <<":">>
          \o TwoDigits((t * 30) % 60) \o <<":", "0", "0">>

(***************************************************************************)
(* bson.ObjectId: a 12-byte value, written as 24 hexadecimal digits.       *)
(***************************************************************************)
\* ObjectId(s) returns (TRUE) or raises InvalidId (FALSE)
ObjectIdValid(s) == Len(s) = 24 /\ \A i \in 1..Len(s) : IsHex(s[i])

\* the value of the hexadecimal digits s[1..n], most significant first
RECURSIVE HexValue(_, _)
HexValue(s, n) ==
    IF n = 0 THEN 0 ELSE 16 * HexValue(s, n - 1) + HexVal(s[n])

ObjectId(s) == HexValue(s, Len(s))

\* n as k lower-case hexadecimal digits
RECURSIVE ToHex(_, _)
ToHex(n, k) ==
    IF k = 0 THEN <<>> ELSE Append(ToHex(n \div 16, k - 1), HexDigit(n % 16))

\* str(oid)
str(oid) == ToHex(oid, 24)

(***************************************************************************)
(* Request inputs.                                                         *)
(***************************************************************************)
\* the teachers collection's keys; this router never writes to it
teachers_collection == {"teacher1", "teacher2"}

Usernames == teachers_collection \cup {"student1"}

T0000 == <<"T", "0", "0", ":", "0", "0", ":", "0", "0">>
T0030 == <<"T", "0", "0", ":", "3", "0", ":", "0", "0">>
T0100 == <<"T", "0", "1", ":", "0", "0", ":", "0", "0">>
Plus0100 == <<"+", "0", "1", ":", "0", "0">>
Minus0100 == <<"-", "0", "1", ":", "0", "0">>

NotADate == <<"n", "o", "t", "-", "a", "-", "d", "a", "t", "e">>
EmptyStr == <<>>

\* 01:00 UTC, written with "Z"
At0100Z == Today \o T0100 \o <<"Z">>
\* 00:00 UTC, written as 01:00+01:00
At0100Plus == Today \o T0100 \o Plus0100
\* 01:00 UTC, written as 00:00-01:00
At0000Minus == Today \o T0000 \o Minus0100
\* 00:30 UTC, written without a zone
At0030 == Today \o T0030

Request(title, message, expiration_date, username, start_date) ==
    [title |-> title, message |-> message, expiration_date |-> expiration_date,
     username |-> username, start_date |-> start_date]

\* two well-formed requests that differ in every field
ExamRequest ==
    Request("Exam", "Final exam Friday", At0100Z, "teacher1", Null)
TripRequest ==
    Request("Trip", "Bus leaves at 8", At0100Plus, "teacher2", At0030)

\* requests the handlers reject
RejectedRequests ==
    { Request("Exam", "Final exam Friday", NotADate, "student1", NotADate),
      Request("Exam", "Final exam Friday", NotADate, "teacher1", Null),
      Request("Trip", "Bus leaves at 8", At0100Z, "teacher2", NotADate) }

Requests == {ExamRequest, TripRequest} \cup RejectedRequests

\* requests that differ in the way their dates are written
DatedRequests ==
    { Request("Exam", "Final exam Friday", expiration_date, "teacher1", Null) :
          expiration_date \in {At0100Z, At0100Plus, At0000Minus} }
    \cup
    { Request("Exam", "Final exam Friday", At0100Z, "teacher1", start_date) :
          start_date \in {EmptyStr, At0030, At0000Minus} }

MalformedId == <<"n", "o", "t", "-", "a", "n", "-", "i", "d">>

AnnouncementIds == {str(n) : n \in 1..MaxInserts} \cup {MalformedId}

Workers == {"w1", "w2"}

(***************************************************************************)
(* State.                                                                  *)
(***************************************************************************)
VARIABLES
    announcements,  \* announcements_collection: ObjectId -> document (without _id)
    next_oid,       \* the ObjectId the driver gives to the next inserted document
    now,            \* datetime.utcnow(), in half hours past midnight of Today
    pc,             \* per worker: where it stands inside update_announcement
    locals,         \* per worker: the local variables of its update_announcement
    response        \* the HTTP response sent by the last step, if it sent one

vars == <<announcements, next_oid, now, pc, locals, response>>

NoLocals == [obj_id |-> 0]

NoResponse == [op |-> "none", status_code |-> 0, body |-> <<>>]

Init ==
    /\ announcements = <<>>
    /\ next_oid = 1
    /\ now = 0
    /\ pc = [w \in Workers |-> "idle"]
    /\ locals = [w \in Workers |-> NoLocals]
    /\ response = NoResponse

(***************************************************************************)
(* Database and framework operations.                                      *)
(***************************************************************************)
\* a handler returns value: FastAPI answers 200 with the value as the body
Return(op, value) == [op |-> op, status_code |-> 200, body |-> value]

\* raise HTTPException(status_code, detail)
HTTPException(op, status_code, detail) ==
    [op |-> op, status_code |-> status_code, body |-> [detail |-> detail]]

\* an exception no handler catches: FastAPI answers 500
Unhandled(op) ==
    [op |-> op, status_code |-> 500, body |-> [detail |-> "Internal Server Error"]]

\* a lookup that takes every non-empty username for a teacher
IsTeacherAnyName(username) == username # ""

\* teachers_collection.find_one({"_id": username}) finds a record
IsTeacher(username) == username \in teachers_collection

\* Python truthiness of an Optional[str]
Truthy(v) == v # Null /\ v # EmptyStr

\* announcement["id"] = str(announcement["_id"]); del announcement["_id"]
WithId(oid, doc) ==
    [k \in DOMAIN doc \cup {"id"} |-> IF k = "id" THEN str(oid) ELSE doc[k]]

\* the document replaced by update_data, as replace_one would
SetReplacesDocument(doc, update_data) == update_data

\* the document after {"$set": update_data}
Set(doc, update_data) ==
    [k \in DOMAIN doc \cup DOMAIN update_data |->
        IF k \in DOMAIN update_data THEN update_data[k] ELSE doc[k]]

\* the query of get_active_announcements; $gte and $lte between strings match
\* only string fields and compare them as strings
ActiveQuery(doc, current_time) ==
    /\ IsStr(doc.expiration_date) /\ StrLeq(current_time, doc.expiration_date)
    /\ \/ "start_date" \notin DOMAIN doc
       \/ doc.start_date = Null
       \/ IsStr(doc.start_date) /\ StrLeq(doc.start_date, current_time)

\* .sort("created_at", 1): oldest first
SortCreatedAtAscending(S) ==
    { order \in [1..Cardinality(S) -> S] :
        /\ \A i, j \in 1..Cardinality(S) : i # j => order[i] # order[j]
        /\ \A i, j \in 1..Cardinality(S) :
              i < j => StrLeq(announcements[order[i]].created_at,
                              announcements[order[j]].created_at) }

\* .sort("created_at", -1): the orders in which the cursor may yield the
\* documents with the ids in S (documents with equal keys come in any order)
SortCreatedAtDescending(S) ==
    { order \in [1..Cardinality(S) -> S] :
        /\ \A i, j \in 1..Cardinality(S) : i # j => order[i] # order[j]
        /\ \A i, j \in 1..Cardinality(S) :
              i < j => StrLeq(announcements[order[j]].created_at,
                              announcements[order[i]].created_at) }

\* the list built from a cursor, each document with "id" in place of "_id"
Documents(order) == [i \in 1..Len(order) |-> WithId(order[i], announcements[order[i]])]

\* a document that drops the start_date it was given
NewAnnouncementWithoutStart(title, message, expiration_date, username, start_date, current) ==
    [title |-> title,
     message |-> message,
     start_date |-> Null,
     expiration_date |-> expiration_date,
     created_by |-> username,
     created_at |-> isoformat(current)]

\* lines 90-97: the document create_announcement inserts
NewAnnouncement(title, message, expiration_date, username, start_date, current) ==
    [title |-> title,
     message |-> message,
     start_date |-> start_date,
     expiration_date |-> expiration_date,
     created_by |-> username,
     created_at |-> isoformat(current)]

\* lines 145-152: the fields update_announcement sets
UpdateData(title, message, expiration_date, username, start_date, current) ==
    [title |-> title,
     message |-> message,
     start_date |-> start_date,
     expiration_date |-> expiration_date,
     updated_by |-> username,
     updated_at |-> isoformat(current)]

\* the collection with document doc stored under oid
Store(oid, doc) ==
    [o \in DOMAIN announcements \cup {oid} |->
        IF o = oid THEN doc ELSE announcements[o]]

\* the collection without the document under oid
Remove(oid) == [o \in DOMAIN announcements \ {oid} |-> announcements[o]]

(***************************************************************************)
(* The handlers.  Each is written as the outcome of running it in the      *)
(* current state: the response it sends and the state it leaves.  A        *)
(* handler that makes one round trip to the announcements collection is    *)
(* one step; update_announcement makes three (find_one, update_one,        *)
(* find_one) and is three steps, between which other workers run.  The     *)
(* lookup in the teachers collection is taken together with the step       *)
(* after it: nothing writes that collection.                               *)
(***************************************************************************)
\* the outcome of a step that sends response r and writes nothing
Rejected(r) ==
    [response |-> r, announcements |-> announcements, next_oid |-> next_oid]

\* the responses get_active_announcements may send (one per order in which
\* the cursor may yield documents with equal created_at)
get_active_announcements ==
    LET current_time == isoformat(now)
        found == {o \in DOMAIN announcements :
                     ActiveQuery(announcements[o], current_time)}
    IN {Return("get_active", Documents(order)) :
            order \in SortCreatedAtDescending(found)}

\* the responses get_all_announcements may send
get_all_announcements(username) ==
    IF ~IsTeacher(username)
    THEN {HTTPException("get_all", 401, "Unauthorized")}
    ELSE {Return("get_all", Documents(order)) :
              order \in SortCreatedAtDescending(DOMAIN announcements)}

\* create_announcement with the insert moved before the check of start_date
create_announcement_inserts_first(title, message, expiration_date, username, start_date) ==
    IF ~IsTeacher(username)
    THEN Rejected(HTTPException("create", 401, "Unauthorized"))
    ELSE IF ~ValidDate(expiration_date)
    THEN Rejected(HTTPException("create", 400, "Invalid expiration date format"))
    ELSE LET announcement ==
                 NewAnnouncement(title, message, expiration_date, username,
                                 start_date, now)
         IN [response |->
                 IF Truthy(start_date) /\ ~ValidDate(start_date)
                 THEN HTTPException("create", 400, "Invalid start date format")
                 ELSE Return("create", WithId(next_oid, announcement)),
             announcements |-> Store(next_oid, announcement),
             next_oid |-> next_oid + 1]

create_announcement(title, message, expiration_date, username, start_date) ==
    IF ~IsTeacher(username)
    THEN Rejected(HTTPException("create", 401, "Unauthorized"))
    ELSE IF ~ValidDate(expiration_date)
    THEN Rejected(HTTPException("create", 400, "Invalid expiration date format"))
    ELSE IF Truthy(start_date) /\ ~ValidDate(start_date)
    THEN Rejected(HTTPException("create", 400, "Invalid start date format"))
    ELSE LET announcement ==
                 NewAnnouncement(title, message, expiration_date, username,
                                 start_date, now)
         IN [response |-> Return("create", WithId(next_oid, announcement)),
             announcements |-> Store(next_oid, announcement),
             next_oid |-> next_oid + 1]

\* lines 117-142: authentication, ObjectId, find_one, validation of the dates.
\* The outcome is the response raised, or NoResponse and the local variables
\* with which the handler goes on
update_announcement(announcement_id, title, message, expiration_date, username, start_date) ==
    IF ~IsTeacher(username)
    THEN [response |-> HTTPException("update", 401, "Unauthorized"),
          locals |-> NoLocals]
    ELSE IF ~ObjectIdValid(announcement_id)
    THEN [response |-> HTTPException("update", 400, "Invalid announcement ID"),
          locals |-> NoLocals]
    ELSE IF ObjectId(announcement_id) \notin DOMAIN announcements
    THEN [response |-> HTTPException("update", 404, "Announcement not found"),
          locals |-> NoLocals]
    ELSE IF ~ValidDate(expiration_date)
    THEN [response |-> HTTPException("update", 400, "Invalid expiration date format"),
          locals |-> NoLocals]
    ELSE IF Truthy(start_date) /\ ~ValidDate(start_date)
    THEN [response |-> HTTPException("update", 400, "Invalid start date format"),
          locals |-> NoLocals]
    ELSE [response |-> NoResponse,
          locals |-> [obj_id |-> ObjectId(announcement_id),
                      title |-> title,
                      message |-> message,
                      start_date |-> start_date,
                      expiration_date |-> expiration_date,
                      username |-> username]]

\* update_one with upsert=True: a document that is gone is inserted again
update_announcement_upsert(l) ==
    LET update_data ==
            UpdateData(l.title, l.message, l.expiration_date, l.username,
                       l.start_date, now)
    IN IF l.obj_id \in DOMAIN announcements
       THEN Store(l.obj_id, Set(announcements[l.obj_id], update_data))
       ELSE Store(l.obj_id, update_data)

\* lines 144-154, run with the local variables l: update_data and update_one,
\* which changes the document with that _id if there is one and inserts
\* nothing.  The outcome is the collection
update_announcement_update_one(l) ==
    LET update_data ==
            UpdateData(l.title, l.message, l.expiration_date, l.username,
                       l.start_date, now)
    IN IF l.obj_id \in DOMAIN announcements
       THEN Store(l.obj_id, Set(announcements[l.obj_id], update_data))
       ELSE announcements

\* lines 156-161, run with the local variables l: find_one and the response;
\* find_one returns None when the document is gone, and updated["_id"] then
\* raises TypeError
update_announcement_find_one(l) ==
    IF l.obj_id \in DOMAIN announcements
    THEN Return("update", WithId(l.obj_id, announcements[l.obj_id]))
    ELSE Unhandled("update")

\* delete_announcement with a malformed id answered like a missing record
delete_announcement_malformed_as_missing(announcement_id, username) ==
    IF ~IsTeacher(username)
    THEN Rejected(HTTPException("delete", 401, "Unauthorized"))
    ELSE IF \/ ~ObjectIdValid(announcement_id)
            \/ ObjectId(announcement_id) \notin DOMAIN announcements
    THEN Rejected(HTTPException("delete", 404, "Announcement not found"))
    ELSE [response |->
              Return("delete", [message |-> "Announcement deleted successfully"]),
          announcements |-> Remove(ObjectId(announcement_id)),
          next_oid |-> next_oid]

delete_announcement(announcement_id, username) ==
    IF ~IsTeacher(username)
    THEN Rejected(HTTPException("delete", 401, "Unauthorized"))
    ELSE IF ~ObjectIdValid(announcement_id)
    THEN Rejected(HTTPException("delete", 400, "Invalid announcement ID"))
    ELSE IF ObjectId(announcement_id) \notin DOMAIN announcements
    THEN Rejected(HTTPException("delete", 404, "Announcement not found"))
    ELSE [response |->
              Return("delete", [message |-> "Announcement deleted successfully"]),
          announcements |-> Remove(ObjectId(announcement_id)),
          next_oid |-> next_oid]

(***************************************************************************)
(* The steps of the workers in W, on requests drawn from R.                *)
(***************************************************************************)
GetActive(W) ==
    /\ \E w \in W : pc[w] = "idle"
    /\ \E r \in get_active_announcements : response' = r
    /\ UNCHANGED <<announcements, next_oid, now, pc, locals>>

GetAll(W) ==
    /\ \E w \in W : pc[w] = "idle"
    /\ \E username \in Usernames :
           \E r \in get_all_announcements(username) : response' = r
    /\ UNCHANGED <<announcements, next_oid, now, pc, locals>>

Create(W, R) ==
    /\ \E w \in W : pc[w] = "idle"
    /\ \E r \in R :
           LET outcome == create_announcement(r.title, r.message, r.expiration_date,
                                              r.username, r.start_date)
           IN /\ outcome.next_oid <= MaxInserts + 1
              /\ response' = outcome.response
              /\ announcements' = outcome.announcements
              /\ next_oid' = outcome.next_oid
    /\ UNCHANGED <<now, pc, locals>>

Update(W, R) ==
    \E w \in W, announcement_id \in AnnouncementIds, r \in R :
        /\ pc[w] = "idle"
        /\ LET outcome == update_announcement(announcement_id, r.title, r.message,
                                              r.expiration_date, r.username,
                                              r.start_date)
           IN /\ response' = outcome.response
              /\ locals' = [locals EXCEPT ![w] = outcome.locals]
              /\ pc' = [pc EXCEPT ![w] = IF outcome.response = NoResponse
                                         THEN "update_one" ELSE "idle"]
        /\ UNCHANGED <<announcements, next_oid, now>>

UpdateOne(W) ==
    \E w \in W :
        /\ pc[w] = "update_one"
        /\ announcements' = update_announcement_update_one(locals[w])
        /\ pc' = [pc EXCEPT ![w] = "find_one"]
        /\ response' = NoResponse
        /\ UNCHANGED <<next_oid, now, locals>>

FindOne(W) ==
    \E w \in W :
        /\ pc[w] = "find_one"
        /\ response' = update_announcement_find_one(locals[w])
        /\ pc' = [pc EXCEPT ![w] = "idle"]
        /\ locals' = [locals EXCEPT ![w] = NoLocals]
        /\ UNCHANGED <<announcements, next_oid, now>>

Delete(W) ==
    /\ \E w \in W : pc[w] = "idle"
    /\ \E announcement_id \in AnnouncementIds, username \in Usernames :
           LET outcome == delete_announcement(announcement_id, username)
           IN /\ response' = outcome.response
              /\ announcements' = outcome.announcements
    /\ UNCHANGED <<next_oid, now, pc, locals>>

\* time passes
Tick ==
    /\ now < MaxClock
    /\ now' = now + 1
    /\ response' = NoResponse
    /\ UNCHANGED <<announcements, next_oid, pc, locals>>

\* the worker that serves one request at a time
OneWorker == {"w1"}

\* the requests that need a teacher, one at a time
Next ==
    \/ GetAll(OneWorker)
    \/ Create(OneWorker, Requests)
    \/ Update(OneWorker, Requests)
    \/ UpdateOne(OneWorker)
    \/ FindOne(OneWorker)
    \/ Delete(OneWorker)

Spec == Init /\ [][Next]_vars

\* requests served by concurrent workers
NextConcurrent ==
    \/ GetActive(Workers)
    \/ GetAll(Workers)
    \/ Create(Workers, {ExamRequest})
    \/ Update(Workers, {TripRequest})
    \/ UpdateOne(Workers)
    \/ FindOne(Workers)
    \/ Delete(Workers)

SpecConcurrent == Init /\ [][NextConcurrent]_vars

\* one request at a time, with dates in several forms, while time passes
NextClock ==
    \/ GetActive(OneWorker)
    \/ GetAll(OneWorker)
    \/ Create(OneWorker, DatedRequests)
    \/ Update(OneWorker, DatedRequests)
    \/ UpdateOne(OneWorker)
    \/ FindOne(OneWorker)
    \/ Delete(OneWorker)
    \/ Tick

SpecClock == Init /\ [][NextClock]_vars

\* announcements are created, deleted and listed while time passes
NextListing ==
    \/ GetActive(OneWorker)
    \/ GetAll(OneWorker)
    \/ Create(OneWorker, {ExamRequest, TripRequest})
    \/ Delete(OneWorker)
    \/ Tick

SpecListing == Init /\ [][NextListing]_vars

(***************************************************************************)
(* The instant a timestamp names, for stating what the handlers should do. *)
(***************************************************************************)
RECURSIVE DaysBeforeMonth(_, _)
DaysBeforeMonth(y, m) ==
    IF m = 1 THEN 0 ELSE DaysBeforeMonth(y, m - 1) + DaysInMonth(y, m - 1)

\* the number of the day YYYY-MM-DD, counted from 0001-01-01
Ordinal(s) ==
    LET y == Num4(s, 1)
    IN 365 * (y - 1) + ((y - 1) \div 4) - ((y - 1) \div 100) + ((y - 1) \div 400)
       + DaysBeforeMonth(y, Num2(s, 6)) + Num2(s, 9)

\* seconds from midnight UTC of Today to the instant that the valid timestamp
\* s names; a timestamp without a zone is in UTC, as datetime.utcnow() is
Timestamp(s) ==
    LET t == ReplaceZ(s)
        clock == IF Len(t) >= 19
                 THEN 3600 * Num2(t, 12) + 60 * Num2(t, 15) + Num2(t, 18)
                 ELSE 0
        offset == IF Len(t) = 25
                  THEN (IF t[20] = "-" THEN -1 ELSE 1)
                       * (3600 * Num2(t, 21) + 60 * Num2(t, 24))
                  ELSE 0
    IN 86400 * (Ordinal(t) - Ordinal(Today)) + clock - offset

\* the instant at which the clock shows t
Instant(t) == 1800 * t

\* "active" as the data model defines it
IsActive(doc, t) ==
    /\ Timestamp(doc.expiration_date) >= Instant(t)
    /\ \/ "start_date" \notin DOMAIN doc
       \/ doc.start_date = Null
       \/ Timestamp(doc.start_date) <= Instant(t)

\* the ids of the announcements in a returned list
Returned(body) == {body[i].id : i \in 1..Len(body)}

(***************************************************************************)
(* C1: list-active returns exactly the stored announcements that are       *)
(* active at the current time (expiration_date at or after now, and        *)
(* start_date null or at or before now), in whatever accepted form the     *)
(* dates were written.                                                     *)
(***************************************************************************)
C1_ListActiveReturnsExactlyTheActive ==
    response.op = "get_active" =>
        \A o \in DOMAIN announcements :
            (announcements[o].start_date = Null \/ ValidDate(announcements[o].start_date))
            => (str(o) \in Returned(response.body) <=> IsActive(announcements[o], now))

(***************************************************************************)
(* C3: every stored announcement has an expiration_date that parses and a  *)
(* start_date that is null or parses.                                      *)
(***************************************************************************)
C3_StoredDatesParse ==
    \A o \in DOMAIN announcements :
        /\ ValidDate(announcements[o].expiration_date)
        /\ announcements[o].start_date = Null \/ ValidDate(announcements[o].start_date)

(***************************************************************************)
(* C9: list-active and list-all return the announcements newest created_at *)
(* first, and list-all returns every stored announcement exactly once.     *)
(***************************************************************************)
C9_ListsNewestFirst ==
    response.op \in {"get_active", "get_all"} /\ response.status_code = 200 =>
        /\ \A i, j \in 1..Len(response.body) :
              i < j => Timestamp(response.body[i].created_at)
                         >= Timestamp(response.body[j].created_at)
        /\ response.op = "get_all" =>
              /\ Len(response.body) = Cardinality(DOMAIN announcements)
              /\ \A o \in DOMAIN announcements :
                    \E i \in 1..Len(response.body) :
                        response.body[i] = WithId(o, announcements[o])

\* list-all has returned two announcements created at different times
C9_Witness ==
    /\ response.op = "get_all" /\ response.status_code = 200
    /\ Len(response.body) = 2
    /\ response.body[1].created_at # response.body[2].created_at

(***************************************************************************)
(* C2: called by a teacher with a malformed id, update and delete fail     *)
(* with NotFound (404), like a well-formed id that matches no record.      *)
(***************************************************************************)
C2_MalformedIdIsNotFound ==
    [][\A id \in AnnouncementIds, r \in Requests :
          (r.username \in teachers_collection /\ ~ObjectIdValid(id)) =>
              LET updated == update_announcement(id, r.title, r.message,
                                                 r.expiration_date, r.username,
                                                 r.start_date)
                  deleted == delete_announcement(id, r.username)
              IN \* the step serves this update or this delete
                 (\/ response' = updated.response /\ announcements' = announcements
                  \/ /\ response' = deleted.response
                     /\ announcements' = deleted.announcements)
                 => response'.status_code = 404]_vars

\* C2 as amended: called by a teacher with a malformed id, update and delete
\* fail with BadRequest (400, "Invalid announcement ID") and write nothing;
\* NotFound (404) is the answer to a well-formed id that matches no record
C2_MalformedIdIsBadRequest ==
    \A id \in AnnouncementIds, r \in Requests :
        r.username \in teachers_collection =>
            LET updated == update_announcement(id, r.title, r.message,
                                               r.expiration_date, r.username,
                                               r.start_date)
                deleted == delete_announcement(id, r.username)
                Refused(status_code, detail) ==
                    /\ updated.response.status_code = status_code
                    /\ updated.response.body = [detail |-> detail]
                    /\ updated.locals = NoLocals
                    /\ deleted.response.status_code = status_code
                    /\ deleted.response.body = [detail |-> detail]
                    /\ deleted.announcements = announcements
            IN IF ~ObjectIdValid(id)
               THEN Refused(400, "Invalid announcement ID")
               ELSE ObjectId(id) \notin DOMAIN announcements
                        => Refused(404, "Announcement not found")

\* a delete was refused for its malformed id while an announcement is stored
C2_Witness ==
    /\ response.op = "delete"
    /\ response.body = [detail |-> "Invalid announcement ID"]
    /\ DOMAIN announcements # {}

(***************************************************************************)
(* C4: list-all, create, update and delete fail with Unauthorized (401)    *)
(* and write nothing when the username has no teacher record, whatever     *)
(* the other inputs; with a teacher record they are never Unauthorized,    *)
(* whoever created the announcement.                                       *)
(***************************************************************************)
C4_UnauthorizedIffNoTeacherRecord ==
    /\ \A username \in Usernames :
          LET stranger == username \notin teachers_collection
          IN /\ \A listed \in get_all_announcements(username) :
                    listed.status_code = 401 <=> stranger
             /\ \A id \in AnnouncementIds :
                    LET deleted == delete_announcement(id, username)
                    IN /\ deleted.response.status_code = 401 <=> stranger
                       /\ stranger => deleted.announcements = announcements
    /\ \A r \in Requests :
          LET stranger == r.username \notin teachers_collection
              created == create_announcement(r.title, r.message, r.expiration_date,
                                             r.username, r.start_date)
          IN /\ created.response.status_code = 401 <=> stranger
             /\ stranger => created.announcements = announcements
             /\ \A id \in AnnouncementIds :
                    LET updated == update_announcement(id, r.title, r.message,
                                                       r.expiration_date, r.username,
                                                       r.start_date)
                    IN /\ updated.response.status_code = 401 <=> stranger
                       /\ stranger => updated.locals = NoLocals
    /\ \A w \in Workers :
          pc[w] = "find_one" =>
              update_announcement_find_one(locals[w]).status_code # 401

\* an update was refused as Unauthorized while an announcement is stored
C4_Witness ==
    /\ response.op = "update" /\ response.status_code = 401
    /\ DOMAIN announcements # {}

(***************************************************************************)
(* C5: a create, update or delete that ends in BadRequest or NotFound      *)
(* leaves the announcements collection as it was.                          *)
(***************************************************************************)
C5_RejectedRequestChangesNothing ==
    [][(/\ response'.op \in {"create", "update", "delete"}
        /\ response'.status_code \in {400, 404}) =>
          announcements' = announcements]_vars

\* an update was refused for a date while an announcement is stored
C5_Witness ==
    /\ response.op = "update"
    /\ response.body = [detail |-> "Invalid start date format"]
    /\ DOMAIN announcements # {}

(***************************************************************************)
(* C6: a delete by a teacher on the id of a stored announcement removes    *)
(* that record and no other; from then on the id is never stored again     *)
(* (no update re-creates it, no create is given it), so every later        *)
(* delete on it is NotFound.  The ids below next_oid are the ids that were *)
(* inserted, so such an id that is not stored has been deleted.            *)
(***************************************************************************)
C6_DeletedStaysDeleted ==
    [][/\ \A id \in AnnouncementIds, u \in teachers_collection :
            ObjectIdValid(id) =>
                \A o \in {ObjectId(id)}, deleted \in {delete_announcement(id, u)} :
                   IF o \in DOMAIN announcements
                   THEN /\ deleted.response.status_code = 200
                        /\ DOMAIN deleted.announcements = DOMAIN announcements \ {o}
                        /\ \A p \in DOMAIN deleted.announcements :
                              deleted.announcements[p] = announcements[p]
                   ELSE /\ deleted.response.status_code = 404
                        /\ deleted.announcements = announcements
       /\ \A o \in 1..(next_oid - 1) :
            o \notin DOMAIN announcements => o \notin DOMAIN announcements']_vars

\* every id was inserted and deleted, an update of a deleted announcement is
\* still running, and a delete has just been answered NotFound
C6_Witness ==
    /\ response.op = "delete" /\ response.status_code = 404
    /\ next_oid = MaxInserts + 1
    /\ DOMAIN announcements = {}
    /\ \E w \in Workers : pc[w] = "find_one"

(***************************************************************************)
(* C7: a create by a teacher with parsable dates adds exactly one record,  *)
(* under an id no stored record has, with the fields given, start_date     *)
(* null when omitted and created_by the caller; the returned announcement  *)
(* carries that id and the stored record's fields; the records stored      *)
(* before are unchanged.                                                   *)
(***************************************************************************)
C7_CreateAddsOneRecord ==
    \A r \in Requests :
        (/\ r.username \in teachers_collection
         /\ ValidDate(r.expiration_date)
         /\ r.start_date = Null \/ ValidDate(r.start_date)) =>
            LET created == create_announcement(r.title, r.message, r.expiration_date,
                                               r.username, r.start_date)
            IN \E o \in DOMAIN created.announcements \ DOMAIN announcements :
                   /\ DOMAIN created.announcements = DOMAIN announcements \cup {o}
                   /\ \A p \in DOMAIN announcements :
                         /\ created.announcements[p] = announcements[p]
                         /\ str(p) # str(o)
                   /\ created.announcements[o] =
                         [title |-> r.title, message |-> r.message,
                          start_date |-> r.start_date,
                          expiration_date |-> r.expiration_date,
                          created_by |-> r.username, created_at |-> isoformat(now)]
                   /\ created.response.status_code = 200
                   /\ created.response.body.id = str(o) /\ str(o) # EmptyStr
                   /\ DOMAIN created.response.body
                         = DOMAIN created.announcements[o] \cup {"id"}
                   /\ \A k \in DOMAIN created.announcements[o] :
                         created.response.body[k] = created.announcements[o][k]

\* a second announcement was created, with a start_date
C7_Witness ==
    /\ response.op = "create" /\ response.status_code = 200
    /\ response.body.start_date # Null
    /\ Cardinality(DOMAIN announcements) = 2

(***************************************************************************)
(* C8: a successful update of id by teacher u replaces title, message,     *)
(* expiration_date and start_date by the values given (start_date null     *)
(* when omitted), sets updated_by to u and updated_at, and returns the     *)
(* record as stored; id, created_by, created_at and every other record     *)
(* are unchanged.  Stated over the three steps of an update: it takes the  *)
(* values of an accepted request, writes them, and returns the record.     *)
(***************************************************************************)
C8_UpdateReplacesMutableFields ==
    [][\A w \in Workers :
          /\ (pc[w] = "idle" /\ pc'[w] = "update_one") =>
                /\ announcements' = announcements
                /\ \E id \in AnnouncementIds, r \in Requests :
                      /\ ObjectIdValid(id)
                      /\ ObjectId(id) \in DOMAIN announcements
                      /\ r.username \in teachers_collection
                      /\ locals'[w] = [obj_id |-> ObjectId(id), title |-> r.title,
                                       message |-> r.message,
                                       expiration_date |-> r.expiration_date,
                                       username |-> r.username,
                                       start_date |-> r.start_date]
          /\ (pc[w] = "update_one" /\ pc'[w] = "find_one") =>
                LET o == locals[w].obj_id
                IN /\ o \in DOMAIN announcements
                   /\ DOMAIN announcements' = DOMAIN announcements
                   /\ \A p \in DOMAIN announcements \ {o} :
                         announcements'[p] = announcements[p]
                   /\ announcements'[o] =
                         [title |-> locals[w].title, message |-> locals[w].message,
                          start_date |-> locals[w].start_date,
                          expiration_date |-> locals[w].expiration_date,
                          created_by |-> announcements[o].created_by,
                          created_at |-> announcements[o].created_at,
                          updated_by |-> locals[w].username,
                          updated_at |-> isoformat(now)]
                   /\ locals'[w] = locals[w]
          /\ (pc[w] = "find_one" /\ pc'[w] = "idle") =>
                /\ response'.op = "update" /\ response'.status_code = 200
                /\ response'.body = WithId(locals[w].obj_id,
                                           announcements[locals[w].obj_id])
                /\ announcements' = announcements]_vars

\* an announcement created by one teacher with a start_date was updated by
\* another teacher without one, beside a second announcement
C8_Witness ==
    /\ response.op = "update" /\ response.status_code = 200
    /\ response.body.start_date = Null
    /\ response.body.created_by # response.body.updated_by
    /\ Cardinality(DOMAIN announcements) = 2

(***************************************************************************)
(* C10: under any interleaving of the database calls of concurrent         *)
(* requests, every request ends with its success response or with          *)
(* Unauthorized, BadRequest or NotFound.                                   *)
(***************************************************************************)
C10_EveryRequestEndsInSuccessOrKnownError ==
    response.status_code \in {0, 200, 400, 401, 404}

=============================================================================
